---- MODULE Spec2Model ----
(***************************************************************************)
(* Model of backend/main.py of new_vegas: the events endpoint with its     *)
(* spreadsheet credentials resolution and fallback data, the mail settings *)
(* resolution done at import time, and the contact endpoint with its       *)
(* background mail task.                                                   *)
(*                                                                         *)
(* Python strings whose content the code inspects are sequences of one     *)
(* character strings, so that int() and the e-mail syntax check are        *)
(* computed and not assumed.  Python values stored in a settings dict are  *)
(* records [t, n, s]: t is the Python type, n the int, s the characters.   *)
(***************************************************************************)
EXTENDS Integers, Sequences, FiniteSets, TLC

VARIABLES
    env_google,     \* os.environ["GOOGLE_CREDENTIALS_JSON"]
    file_google,    \* the file env_vars/service_account.json
    store_status,   \* what opening "NewVegasEvents" and reading sheet1 does
    store_rows,     \* the records sheet1 holds
    gc,             \* credentials the last get_sheet_data built its client from
    events_resp,    \* response of GET /api/events on its way to the client
    env_mail_json,  \* os.environ["MAIL_CONFIG_JSON"]
    file_mail,      \* the file env_vars/mail_config.json
    env_mail,       \* the individual MAIL_* environment variables
    phase,          \* "import" | "serving" | "import_failed"
    mail_cfg,       \* module global mail_cfg
    contact_req,    \* POST /api/contact request received and not yet handled
    contact_resp,   \* response of POST /api/contact on its way to the client
    bg_tasks,       \* background tasks of responses already sent, not yet run
    running,        \* the background task being run, <<>> when none
    outbox,         \* messages the mail transport accepted
    send_log        \* outcome of the last background send: "none" | "sent" | "failed"

vars == <<env_google, file_google, store_status, store_rows, gc, events_resp,
          env_mail_json, file_mail, env_mail, phase, mail_cfg, contact_req,
          contact_resp, bg_tasks, running, outbox, send_log>>

events_vars == <<env_google, file_google, store_status, store_rows, gc, events_resp>>
mail_vars == <<env_mail_json, file_mail, env_mail, phase, mail_cfg>>
contact_vars == <<contact_req, contact_resp, bg_tasks, running, outbox, send_log>>

(***************************************************************************)
(* Bounds                                                                  *)
(***************************************************************************)
MaxRows == 2        \* longest sheet modelled
MaxTasks == 2       \* most background tasks waiting to run at once

SeqsUpTo(S, n) == UNION {[1..k -> S] : k \in 0..n}

(***************************************************************************)
(* GET /api/events                                                         *)
(***************************************************************************)
\* States of GOOGLE_CREDENTIALS_JSON: unset, set to "", set to text that is
\* not JSON, set to JSON the gspread client rejects, set to a usable key.
GoogleEnvStates == {"unset", "empty", "not_json", "rejected", "valid"}
\* States of the credentials file: no such path, a file gspread rejects, a
\* usable key file.
GoogleFileStates == {"absent", "rejected", "valid"}
\* Outcomes of gc.open(SPREADSHEET_NAME) / sh.sheet1 / get_all_records().
StoreStates == {"ok", "not_found", "not_shared", "network_error", "auth_error"}

RowPool ==
    { [Day |-> "Piatki", Time |-> "19:00", Title |-> "Quiz", Description |-> "Pub quiz"],
      [Dzien |-> "Sobota", Tytul |-> "Koncert"] }

SheetStates == SeqsUpTo(RowPool, MaxRows)

\* main.py:169-174, the literal list get_events returns (Polish letters
\* written without diacritics).
FALLBACK ==
    << [Day |-> "Czwartki", Time |-> "20:00", Title |-> "Wielkie Karaoke (Fallback)",
        Description |-> "Najglosniejsza impreza na dzielni. Wstep wolny."],
       [Day |-> "Wtorki", Time |-> "All Day", Title |-> "Bilard Night",
        Description |-> "Znizka na stoly -50% dla studentow."],
       [Day |-> "Srody", Time |-> "20:30", Title |-> "Stand-Up / Open Mic",
        Description |-> "Testy nowych zartow i wystepy lokalnych komikow."],
       [Day |-> "Pt / Sob", Time |-> "21:00", Title |-> "Koncerty Garazowe",
        Description |-> "Sprawdz FB, kto gra w tym tygodniu."] >>

\* Results of a Python call: it returns None, returns a list, or raises.
ReturnNone(c) == [kind |-> "none", rows |-> <<>>, creds |-> c]
ReturnRows(r, c) == [kind |-> "rows", rows |-> r, creds |-> c]
Raise(c) == [kind |-> "raise", rows |-> <<>>, creds |-> c]

\* main.py:40-43: open the spreadsheet and read every record of sheet1.
open_and_read(c, st, rows) ==
    IF st = "ok" THEN ReturnRows(rows, c) ELSE Raise(c)

\* main.py:26-43: the body of the try block of get_sheet_data.
get_sheet_data_try(g, f, st, rows) ==
    IF g \notin {"unset", "empty"}                   \* if json_creds:
    THEN IF g = "not_json" THEN Raise("none")        \* json.loads raises
         ELSE IF g = "rejected" THEN Raise("none")   \* service_account_from_dict raises
         ELSE open_and_read("env", st, rows)
    ELSE IF f # "absent"                             \* elif os.path.exists(...)
         THEN IF f = "rejected" THEN Raise("none")   \* service_account raises
              ELSE open_and_read("file", st, rows)
         ELSE ReturnNone("none")

\* A get_sheet_data whose except clause is missing.
get_sheet_data_unguarded(g, f, st, rows) == get_sheet_data_try(g, f, st, rows)

\* main.py:20-47: except Exception turns every raise into None.
get_sheet_data(g, f, st, rows) ==
    LET r == get_sheet_data_try(g, f, st, rows)
    IN  IF r.kind = "raise" THEN ReturnNone(r.creds) ELSE r

\* main.py:163-175: "if data:" is false for None and for the empty list.
get_events(data) ==
    IF data.kind = "raise"
    THEN [raised |-> TRUE, status |-> 500, body |-> <<>>]
    ELSE IF data.kind = "rows" /\ Len(data.rows) > 0
         THEN [raised |-> FALSE, status |-> 200, body |-> data.rows]
         ELSE [raised |-> FALSE, status |-> 200, body |-> FALLBACK]

NoResp == [raised |-> FALSE, status |-> 0, body |-> <<>>]

\* Deployment changes GOOGLE_CREDENTIALS_JSON.
SetGoogleEnv ==
    /\ \E g \in GoogleEnvStates : g # env_google /\ env_google' = g
    /\ UNCHANGED <<file_google, store_status, store_rows, gc, events_resp>>
    /\ UNCHANGED <<mail_vars, contact_vars>>

\* The credentials file is created, replaced or removed.
SetGoogleFile ==
    /\ \E f \in GoogleFileStates : f # file_google /\ file_google' = f
    /\ UNCHANGED <<env_google, store_status, store_rows, gc, events_resp>>
    /\ UNCHANGED <<mail_vars, contact_vars>>

\* The spreadsheet service changes: reachability or the sheet's contents.
StoreChange ==
    /\ \E st \in StoreStates, rows \in SheetStates :
          /\ <<st, rows>> # <<store_status, store_rows>>
          /\ store_status' = st
          /\ store_rows' = rows
    /\ UNCHANGED <<env_google, file_google, gc, events_resp>>
    /\ UNCHANGED <<mail_vars, contact_vars>>

\* GET /api/events, main.py:162-175.
GetEvents ==
    /\ events_resp = NoResp
    /\ LET data == get_sheet_data(env_google, file_google, store_status, store_rows)
       IN  /\ gc' = data.creds
           /\ events_resp' = get_events(data)
    /\ UNCHANGED <<env_google, file_google, store_status, store_rows>>
    /\ UNCHANGED <<mail_vars, contact_vars>>

\* The client receives the response.
EventsDelivered ==
    /\ events_resp # NoResp
    /\ events_resp' = NoResp
    /\ UNCHANGED <<env_google, file_google, store_status, store_rows, gc>>
    /\ UNCHANGED <<mail_vars, contact_vars>>


(***************************************************************************)
(* Python values, dicts, int()                                             *)
(***************************************************************************)
None_ == [t |-> "none", n |-> 0, s |-> <<>>]
PyInt(k) == [t |-> "int", n |-> k, s |-> <<>>]
PyStr(cs) == [t |-> "str", n |-> 0, s |-> cs]

\* Python truth value of None, an int, a str.
truthy(v) ==
    CASE v.t = "none" -> FALSE
      [] v.t = "int" -> v.n # 0
      [] v.t = "str" -> Len(v.s) > 0

EmptyDict == [k \in {} |-> None_]

\* dict.get(k): None when the key is missing.
dict_get(d, k) == IF k \in DOMAIN d THEN d[k] ELSE None_

\* d with d[k] = v.
dict_set(d, k, v) == [x \in DOMAIN d \cup {k} |-> IF x = k THEN v ELSE d[x]]

Digits == {"0", "1", "2", "3", "4", "5", "6", "7", "8", "9"}

DigitVal(c) ==
    CASE c = "0" -> 0 [] c = "1" -> 1 [] c = "2" -> 2 [] c = "3" -> 3 [] c = "4" -> 4
      [] c = "5" -> 5 [] c = "6" -> 6 [] c = "7" -> 7 [] c = "8" -> 8 [] c = "9" -> 9

RECURSIVE lstrip(_)
lstrip(cs) == IF cs # <<>> /\ Head(cs) = " " THEN lstrip(Tail(cs)) ELSE cs

RECURSIVE rstrip(_)
rstrip(cs) ==
    IF cs # <<>> /\ cs[Len(cs)] = " " THEN rstrip(SubSeq(cs, 1, Len(cs) - 1)) ELSE cs

RECURSIVE digits_value(_, _)
digits_value(cs, acc) ==
    IF cs = <<>> THEN acc ELSE digits_value(Tail(cs), acc * 10 + DigitVal(Head(cs)))

\* Python int(v) for None, an int, a str: surrounding blanks are dropped, one
\* sign is allowed, the rest must be decimal digits.  ok = FALSE stands for
\* the TypeError / ValueError int() raises.
py_int(v) ==
    IF v.t = "int" THEN [ok |-> TRUE, n |-> v.n]
    ELSE IF v.t = "none" THEN [ok |-> FALSE, n |-> 0]
    ELSE LET body == rstrip(lstrip(v.s))
             signed == body # <<>> /\ Head(body) \in {"+", "-"}
             ds == IF signed THEN Tail(body) ELSE body
         IN  IF ds # <<>> /\ \A i \in 1..Len(ds) : ds[i] \in Digits
             THEN [ok |-> TRUE,
                   n |-> IF signed /\ Head(body) = "-"
                         THEN 0 - digits_value(ds, 0) ELSE digits_value(ds, 0)]
             ELSE [ok |-> FALSE, n |-> 0]

(***************************************************************************)
(* Mail settings resolution, load_mail_config                              *)
(***************************************************************************)
MailKeys == {"MAIL_USERNAME", "MAIL_PASSWORD", "MAIL_FROM", "MAIL_PORT",
             "MAIL_SERVER", "MAIL_RECIPIENT"}

\* main.py:65-72
defaults ==
    [MAIL_USERNAME |-> PyStr(<<"y","o","u","r","-","e","m","a","i","l","@",
                               "g","m","a","i","l",".","c","o","m">>),
     MAIL_PASSWORD |-> PyStr(<<"y","o","u","r","-","a","p","p","-",
                               "p","a","s","s","w","o","r","d">>),
     MAIL_FROM |-> PyStr(<<"y","o","u","r","-","e","m","a","i","l","@",
                           "g","m","a","i","l",".","c","o","m">>),
     MAIL_PORT |-> PyInt(587),
     MAIL_SERVER |-> PyStr(<<"s","m","t","p",".","g","m","a","i","l",".","c","o","m">>),
     MAIL_RECIPIENT |-> None_]

\* What a call returns: a value, or an exception on its way out.
Returned(d) == [raised |-> FALSE, value |-> d]
Raised == [raised |-> TRUE, value |-> EmptyDict]

\* "config" of load_mail_config: None, or what json.loads / json.load gave.
ConfigNone == [found |-> FALSE, d |-> EmptyDict]
ConfigOf(d) == [found |-> TRUE, d |-> d]

\* "if config:" / "if not config": None and the empty dict are false.
config_truthy(c) == c.found /\ DOMAIN c.d # {}

\* main.py:76-81: the blob is parsed when the variable is a non-empty
\* string; json.JSONDecodeError is caught and leaves config = None.
parse_env_blob(j) ==
    IF j.kind \notin {"unset", "empty"}
    THEN IF j.kind = "json" THEN ConfigOf(j.d) ELSE ConfigNone
    ELSE ConfigNone

\* A step 2 that reads the file whenever it exists.
read_local_file_eager(config, f) ==
    IF f.kind # "absent"
    THEN IF f.kind = "json" THEN ConfigOf(f.d) ELSE config
    ELSE config

\* main.py:83-89: the file is read when config is still false and the path
\* exists; any exception while opening or parsing leaves config as it was.
read_local_file(config, f) ==
    IF ~config_truthy(config) /\ f.kind # "absent"
    THEN IF f.kind = "json" THEN ConfigOf(f.d) ELSE config
    ELSE config

\* A step that returns the config as parsed.
process_config_as_is(d) == Returned(d)

\* main.py:93-96: MAIL_PORT, when present, is replaced by int(MAIL_PORT).
process_config(d) ==
    IF "MAIL_PORT" \in DOMAIN d
    THEN LET p == py_int(d["MAIL_PORT"])
         IN  IF p.ok THEN Returned(dict_set(d, "MAIL_PORT", PyInt(p.n))) ELSE Raised
    ELSE Returned(d)

\* os.getenv(k, default): e[k] is None_ when the variable is unset.
getenv(e, k, default) == IF e[k].t = "none" THEN default ELSE e[k]

\* A step 3 whose MAIL_PORT has no default.
individual_env_no_port_default(e) ==
    LET p == py_int(e["MAIL_PORT"])
    IN  IF p.ok
        THEN Returned([k \in MailKeys |->
                 IF k = "MAIL_PORT" THEN PyInt(p.n)
                 ELSE IF k = "MAIL_RECIPIENT" THEN e[k]
                 ELSE getenv(e, k, defaults[k])])
        ELSE Raised

\* main.py:98-106
individual_env(e) ==
    LET p == py_int(getenv(e, "MAIL_PORT", defaults["MAIL_PORT"]))
    IN  IF p.ok
        THEN Returned([k \in MailKeys |->
                 IF k = "MAIL_PORT" THEN PyInt(p.n)
                 ELSE IF k = "MAIL_RECIPIENT" THEN getenv(e, k, None_)
                 ELSE getenv(e, k, defaults[k])])
        ELSE Raised

\* main.py:56-106
load_mail_config(j, f, e) ==
    LET config == read_local_file(parse_env_blob(j), f)
    IN  IF config_truthy(config) THEN process_config(config.d) ELSE individual_env(e)

(***************************************************************************)
(* States of the three mail sources                                        *)
(***************************************************************************)
Absent == [t |-> "absent", n |-> 0, s |-> <<>>]

\* The JSON object with the given members, leaving out the Absent ones.
Obj(from, port, rcpt) ==
    LET all == [k \in {"MAIL_FROM", "MAIL_PORT", "MAIL_RECIPIENT"} |->
                   CASE k = "MAIL_FROM" -> from
                     [] k = "MAIL_PORT" -> port
                     [] k = "MAIL_RECIPIENT" -> rcpt]
        keep == {k \in DOMAIN all : all[k].t # "absent"}
    IN  [k \in keep |-> all[k]]

BlobFrom == PyStr(<<"b", "@", "x", ".", "y">>)
BlobRcpt == PyStr(<<"c", "@", "x", ".", "y">>)
FileFrom == PyStr(<<"f", "@", "x", ".", "y">>)
FileRcpt == PyStr(<<"g", "@", "x", ".", "y">>)
VarFrom == PyStr(<<"v", "@", "x", ".", "y">>)
VarRcpt == PyStr(<<"w", "@", "x", ".", "y">>)

Str587 == PyStr(<<"5", "8", "7">>)
StrPadded25 == PyStr(<<" ", "2", "5">>)
StrWord == PyStr(<<"s", "m", "t", "p">>)
StrEmpty == PyStr(<<>>)

\* MAIL_PORT as a JSON member: missing, number, numeric string, other string, null.
JsonPorts == {Absent, PyInt(587), Str587, StrPadded25, StrWord, None_}

JsonObjects(from, rcpt) ==
    { Obj(fo, po, ro) : fo \in {Absent, from}, po \in JsonPorts,
                        ro \in {Absent, None_, StrEmpty, rcpt} }

Blob(kind, d) == [kind |-> kind, d |-> d]

\* MAIL_CONFIG_JSON: unset, "", text that is not JSON, a JSON object.
BlobStates ==
    {Blob("unset", EmptyDict), Blob("empty", EmptyDict), Blob("not_json", EmptyDict)}
    \cup {Blob("json", d) : d \in JsonObjects(BlobFrom, BlobRcpt)}

\* env_vars/mail_config.json: no such path, a path open() fails on, text
\* that is not JSON, a JSON object.
FileStates ==
    {Blob("absent", EmptyDict), Blob("unreadable", EmptyDict), Blob("not_json", EmptyDict)}
    \cup {Blob("json", d) : d \in JsonObjects(FileFrom, FileRcpt)}

Env(from, port, rcpt) ==
    [k \in MailKeys |->
        CASE k = "MAIL_FROM" -> from
          [] k = "MAIL_PORT" -> port
          [] k = "MAIL_RECIPIENT" -> rcpt
          [] OTHER -> None_]

\* The individual variables: each unset (None_) or set to a string.
EnvStates ==
    { Env(fo, po, ro) : fo \in {None_, VarFrom},
                        po \in {None_, Str587, StrWord, StrEmpty},
                        ro \in {None_, StrEmpty, VarRcpt} }


(***************************************************************************)
(* POST /api/contact                                                       *)
(***************************************************************************)
Count(cs, c) == Cardinality({i \in 1..Len(cs) : cs[i] = c})

\* No empty label: no dot first, last, or next to another dot.
dots_ok(cs) ==
    /\ cs # <<>>
    /\ cs[1] # "." /\ cs[Len(cs)] # "."
    /\ \A i \in 1..(Len(cs) - 1) : ~(cs[i] = "." /\ cs[i + 1] = ".")

\* pydantic EmailStr, main.py:52: one "@", a local part and a domain
\* without blanks or empty labels, a domain with a period.
is_email(cs) ==
    /\ Count(cs, "@") = 1
    /\ Count(cs, " ") = 0
    /\ LET at == CHOOSE i \in 1..Len(cs) : cs[i] = "@"
           local == SubSeq(cs, 1, at - 1)
           domain == SubSeq(cs, at + 1, Len(cs))
       IN  /\ dots_ok(local)
           /\ dots_ok(domain)
           /\ Count(domain, ".") >= 1

FormFields == {"name", "email", "topic", "message"}

\* A ContactForm whose email is a plain str.
validate_contact_form_any_email(body) == DOMAIN body = FormFields

\* main.py:50-54, 124: the framework builds the ContactForm argument from
\* the JSON body; a missing field or an email that is no EmailStr is a 422
\* and the handler is not called.
validate_contact_form(body) ==
    /\ DOMAIN body = FormFields
    /\ is_email(body["email"])

GoodEmail == <<"j", "@", "x", ".", "p", "l">>
BadEmails == { <<"j", "x">>, <<"j", "@", "x">>, <<"@", "x", ".", "p", "l">>,
               <<"j", "@", "@", "x", ".", "p", "l">>, <<>> }

FullBody(email) ==
    [name |-> <<"J">>, email |-> email, topic |-> <<"h", "i">>, message |-> <<"m">>]

\* JSON bodies a client may post.
Bodies ==
    {FullBody(em) : em \in {GoodEmail} \cup BadEmails}
    \cup { [name |-> <<"J">>, topic |-> <<"h", "i">>, message |-> <<"m">>],
           [name |-> <<"J">>, email |-> GoodEmail, message |-> <<"m">>] }

NoReq == [body |-> EmptyDict, add_task_raises |-> FALSE, pending |-> FALSE]
NoContactResp == [status |-> 0, body |-> "", background |-> <<>>]

\* A lookup that falls back to MAIL_FROM only when the key is missing.
resolve_recipient_key_default(cfg) ==
    IF "MAIL_RECIPIENT" \in DOMAIN cfg THEN cfg["MAIL_RECIPIENT"]
    ELSE dict_get(cfg, "MAIL_FROM")

\* main.py:140: mail_cfg.get("MAIL_RECIPIENT") or mail_cfg.get("MAIL_FROM")
resolve_recipient(cfg) ==
    IF truthy(dict_get(cfg, "MAIL_RECIPIENT")) THEN dict_get(cfg, "MAIL_RECIPIENT")
    ELSE dict_get(cfg, "MAIL_FROM")

\* main.py:128-147: the MessageSchema built from the form.
build_message(form, cfg) ==
    [subject |-> <<"New Vegas Contact: ", form["topic"]>>,
     recipients |-> <<resolve_recipient(cfg)>>,
     body |-> <<form["name"], form["email"], form["topic"], form["message"]>>]

\* main.py:123-157: the handler; the task is attached to the response.
send_contact_email(form, cfg, add_task_raises) ==
    IF add_task_raises
    THEN [status |-> 500, body |-> "Failed to send email", background |-> <<>>]
    ELSE [status |-> 200, body |-> "Email sent successfully",
          background |-> <<build_message(form, cfg)>>]

Resp422 == [status |-> 422, body |-> "Unprocessable Entity", background |-> <<>>]

\* A client posts to /api/contact.
ContactArrives ==
    /\ phase = "serving"
    /\ ~contact_req.pending
    /\ contact_resp = NoContactResp
    /\ \E b \in Bodies, x \in BOOLEAN :
          contact_req' = [body |-> b, add_task_raises |-> x, pending |-> TRUE]
    /\ UNCHANGED <<contact_resp, bg_tasks, running, outbox, send_log>>
    /\ UNCHANGED <<events_vars, mail_vars>>

\* A handler that resolves the mail settings again on every request.
ContactHandle_reloads ==
    /\ contact_req.pending
    /\ LET r == load_mail_config(env_mail_json, file_mail, env_mail)
       IN  /\ ~r.raised
           /\ mail_cfg' = r.value
           /\ contact_resp' =
                 IF validate_contact_form(contact_req.body)
                 THEN send_contact_email(contact_req.body, r.value,
                                         contact_req.add_task_raises)
                 ELSE Resp422
    /\ contact_req' = NoReq
    /\ UNCHANGED <<bg_tasks, running, outbox, send_log>>
    /\ UNCHANGED <<events_vars, env_mail_json, file_mail, env_mail, phase>>

\* A handler that awaits fm.send_message before answering.
ContactHandle_awaits_send ==
    /\ contact_req.pending
    /\ contact_req' = NoReq
    /\ IF validate_contact_form(contact_req.body)
       THEN LET r == send_contact_email(contact_req.body, mail_cfg,
                                        contact_req.add_task_raises)
            IN  IF r.status = 200
                THEN \E sent \in BOOLEAN :
                        /\ outbox' = IF sent THEN outbox \cup {r.background[1]} ELSE outbox
                        /\ send_log' = IF sent THEN "sent" ELSE "failed"
                        /\ contact_resp' =
                              IF sent THEN [r EXCEPT !.background = <<>>]
                              ELSE [status |-> 500, body |-> "Failed to send email",
                                    background |-> <<>>]
                ELSE contact_resp' = r /\ UNCHANGED <<outbox, send_log>>
       ELSE contact_resp' = Resp422 /\ UNCHANGED <<outbox, send_log>>
    /\ UNCHANGED <<bg_tasks, running>>
    /\ UNCHANGED <<events_vars, mail_vars>>

\* The framework validates the body and calls send_contact_email,
\* main.py:123-157.
ContactHandle ==
    /\ contact_req.pending
    /\ contact_resp' =
          IF validate_contact_form(contact_req.body)
          THEN send_contact_email(contact_req.body, mail_cfg, contact_req.add_task_raises)
          ELSE Resp422
    /\ contact_req' = NoReq
    /\ UNCHANGED <<bg_tasks, running, outbox, send_log>>
    /\ UNCHANGED <<events_vars, mail_vars>>

\* The response is sent; its background tasks become due after it.
ContactDelivered ==
    /\ contact_resp # NoContactResp
    /\ Len(bg_tasks) + Len(contact_resp.background) <= MaxTasks
    /\ bg_tasks' = bg_tasks \o contact_resp.background
    /\ contact_resp' = NoContactResp
    /\ UNCHANGED <<contact_req, running, outbox, send_log>>
    /\ UNCHANGED <<events_vars, mail_vars>>

\* fm.send_message(message) starts.
BgStart ==
    /\ running = <<>>
    /\ bg_tasks # <<>>
    /\ running' = <<Head(bg_tasks)>>
    /\ bg_tasks' = Tail(bg_tasks)
    /\ UNCHANGED <<contact_req, contact_resp, outbox, send_log>>
    /\ UNCHANGED <<events_vars, mail_vars>>

\* fm.send_message(message) ends: the transport took the message, or the
\* send raised and the exception is logged by the server.
BgFinish ==
    /\ running # <<>>
    /\ \E sent \in BOOLEAN :
          /\ outbox' = IF sent THEN outbox \cup {running[1]} ELSE outbox
          /\ send_log' = IF sent THEN "sent" ELSE "failed"
    /\ running' = <<>>
    /\ UNCHANGED <<contact_req, contact_resp, bg_tasks>>
    /\ UNCHANGED <<events_vars, mail_vars>>

\* The mail transport hands its messages on.
OutboxDrained ==
    /\ outbox # {}
    /\ outbox' = {}
    /\ UNCHANGED <<contact_req, contact_resp, bg_tasks, running, send_log>>
    /\ UNCHANGED <<events_vars, mail_vars>>

\* main.py:108-109: the import of the module resolves the settings once;
\* an exception ends the import and no request is ever served.
Import ==
    /\ phase = "import"
    /\ LET r == load_mail_config(env_mail_json, file_mail, env_mail)
       IN  /\ phase' = IF r.raised THEN "import_failed" ELSE "serving"
           /\ mail_cfg' = r.value
    /\ UNCHANGED <<env_mail_json, file_mail, env_mail>>
    /\ UNCHANGED <<events_vars, contact_vars>>

(***************************************************************************)
(* Specifications                                                          *)
(***************************************************************************)
EventsIdle ==
    /\ env_google = "unset" /\ file_google = "absent"
    /\ store_status = "ok" /\ store_rows = <<>>
    /\ gc = "none" /\ events_resp = NoResp

ContactIdle ==
    /\ contact_req = NoReq /\ contact_resp = NoContactResp
    /\ bg_tasks = <<>> /\ running = <<>> /\ outbox = {} /\ send_log = "none"

\* Sources of a small deployment, for the served process.
ServedBlobStates ==
    { Blob("unset", EmptyDict), Blob("not_json", EmptyDict),
      Blob("json", Obj(BlobFrom, Str587, BlobRcpt)),
      Blob("json", Obj(BlobFrom, Absent, StrEmpty)) }
ServedFileStates ==
    { Blob("absent", EmptyDict),
      Blob("json", Obj(FileFrom, PyInt(587), None_)),
      Blob("json", Obj(FileFrom, Absent, Absent)) }
ServedEnvStates ==
    { Env(None_, None_, None_), Env(VarFrom, None_, VarRcpt), Env(VarFrom, StrWord, None_) }

\* The events endpoint and its environment.
InitEvents ==
    /\ env_google \in GoogleEnvStates
    /\ file_google \in GoogleFileStates
    /\ store_status \in StoreStates
    /\ store_rows \in SheetStates
    /\ gc = "none" /\ events_resp = NoResp
    /\ env_mail_json = Blob("unset", EmptyDict) /\ file_mail = Blob("absent", EmptyDict)
    /\ env_mail = Env(None_, None_, None_)
    /\ phase = "serving" /\ mail_cfg = individual_env(env_mail).value
    /\ ContactIdle

NextEvents ==
    \/ SetGoogleEnv
    \/ SetGoogleFile
    \/ StoreChange
    \/ GetEvents
    \/ EventsDelivered

SpecEvents == InitEvents /\ [][NextEvents]_vars

\* load_mail_config applied to every state of its three sources.
InitConfig ==
    /\ EventsIdle
    /\ env_mail_json \in BlobStates
    /\ file_mail \in FileStates
    /\ env_mail \in EnvStates
    /\ phase = "import" /\ mail_cfg = EmptyDict
    /\ ContactIdle

NextConfig == Import

SpecConfig == InitConfig /\ [][NextConfig]_vars

\* The mail sources change while the process runs.
SetMailEnvJson ==
    /\ phase = "serving"
    /\ \E j \in ServedBlobStates : j # env_mail_json /\ env_mail_json' = j
    /\ UNCHANGED <<file_mail, env_mail, phase, mail_cfg>>
    /\ UNCHANGED <<events_vars, contact_vars>>

SetMailFile ==
    /\ phase = "serving"
    /\ \E f \in ServedFileStates : f # file_mail /\ file_mail' = f
    /\ UNCHANGED <<env_mail_json, env_mail, phase, mail_cfg>>
    /\ UNCHANGED <<events_vars, contact_vars>>

SetMailEnv ==
    /\ phase = "serving"
    /\ \E e \in ServedEnvStates : e # env_mail /\ env_mail' = e
    /\ UNCHANGED <<env_mail_json, file_mail, phase, mail_cfg>>
    /\ UNCHANGED <<events_vars, contact_vars>>

\* The process: import, then contact requests and their background sends.
Init ==
    /\ EventsIdle
    /\ env_mail_json \in ServedBlobStates
    /\ file_mail \in ServedFileStates
    /\ env_mail \in ServedEnvStates
    /\ phase = "import" /\ mail_cfg = EmptyDict
    /\ ContactIdle

Next ==
    \/ Import
    \/ SetMailEnvJson
    \/ SetMailFile
    \/ SetMailEnv
    \/ ContactArrives
    \/ ContactHandle
    \/ ContactDelivered
    \/ BgStart
    \/ BgFinish
    \/ OutboxDrained

Spec == Init /\ [][Next]_vars


(***************************************************************************)
(* Properties of GET /api/events (checked under SpecEvents)                *)
(***************************************************************************)
\* A step in which get_events runs and answers.
CallsGetEvents == events_resp = NoResp /\ events_resp' # NoResp

\* The credential sources give no usable key, or opening / reading fails.
SourceFailure ==
    \/ env_google \in {"not_json", "rejected"}
    \/ env_google \in {"unset", "empty"} /\ file_google \in {"absent", "rejected"}
    \/ store_status # "ok"

\* The resolution order of the documentation yields a usable key.
CredsUsable ==
    \/ env_google = "valid"
    \/ env_google \in {"unset", "empty"} /\ file_google = "valid"

IsFallbackList(body) ==
    /\ Len(body) = 4
    /\ \A i \in 1..4 : DOMAIN body[i] = {"Day", "Time", "Title", "Description"}
    /\ body[1].Title = "Wielkie Karaoke (Fallback)"

\* C1: get_events is total: every call answers 200 without raising, and when
\* the credential sources are absent, malformed or rejected, or opening or
\* reading the store fails, the answer is exactly the four-record fallback
\* list with keys Day, Time, Title, Description, first Title "Wielkie
\* Karaoke (Fallback)".
C1_EventsTotalFallback ==
    [][CallsGetEvents =>
          /\ ~events_resp'.raised
          /\ events_resp'.status = 200
          /\ (SourceFailure =>
                /\ events_resp'.body = FALLBACK
                /\ IsFallbackList(events_resp'.body))]_vars

\* C1 witness: a call answered with the fallback while the blob is not
\* JSON although a valid file and a reachable, filled sheet exist.
C1_Witness ==
    /\ events_resp.status = 200 /\ events_resp.body = FALLBACK
    /\ env_google = "not_json" /\ file_google = "valid"
    /\ store_status = "ok" /\ Len(store_rows) > 0

\* C2: with valid credentials and a reachable store, get_events returns the
\* rows the first sheet holds at the time of the call, whatever they are.
C2_LiveRowsVerbatim ==
    [][(CallsGetEvents /\ CredsUsable /\ store_status = "ok") =>
          events_resp'.body = store_rows]_vars

\* C3: with GOOGLE_CREDENTIALS_JSON set to text that is not JSON and a
\* valid credentials file, the store is opened with the file's credentials
\* and, when it is reachable, get_events returns its rows.
C3_MalformedBlobFallsThrough ==
    [][(CallsGetEvents /\ env_google = "not_json" /\ file_google = "valid") =>
          /\ gc' = "file"
          /\ (store_status = "ok" => events_resp'.body = store_rows)]_vars

(***************************************************************************)
(* Properties of load_mail_config (checked under SpecConfig)               *)
(***************************************************************************)
\* cfg is the object d, MAIL_PORT aside.
Agrees(cfg, d) ==
    /\ DOMAIN cfg = DOMAIN d
    /\ \A k \in DOMAIN d \ {"MAIL_PORT"} : cfg[k] = d[k]

\* cfg is the individual variables, each defaulted when unset, MAIL_PORT aside.
FromVariables(cfg) ==
    /\ DOMAIN cfg = MailKeys
    /\ \A k \in MailKeys \ {"MAIL_PORT"} :
          cfg[k] = IF env_mail[k] # None_ THEN env_mail[k]
                   ELSE IF k = "MAIL_RECIPIENT" THEN None_ ELSE defaults[k]

WellFormed(src) == src.kind = "json"
\* The source parses to an object with at least one member.
Yields(src) == src.kind = "json" /\ DOMAIN src.d # {}

SuppliedPorts ==
    (IF WellFormed(env_mail_json) /\ "MAIL_PORT" \in DOMAIN env_mail_json.d
     THEN {env_mail_json.d["MAIL_PORT"]} ELSE {})
    \cup (IF WellFormed(file_mail) /\ "MAIL_PORT" \in DOMAIN file_mail.d
          THEN {file_mail.d["MAIL_PORT"]} ELSE {})
    \cup (IF env_mail["MAIL_PORT"] # None_ THEN {env_mail["MAIL_PORT"]} ELSE {})

\* An integer, or a string of decimal digits with an optional sign and
\* surrounding blanks.
IsIntegerText(v) ==
    \/ v.t = "int"
    \/ /\ v.t = "str"
       /\ \E i \in 1..Len(v.s), j \in 1..Len(v.s) :
             /\ i <= j
             /\ \A k \in 1..Len(v.s) :
                   IF k < i \/ k > j THEN v.s[k] = " "
                   ELSE IF k = i /\ i < j THEN v.s[k] \in Digits \cup {"+", "-"}
                   ELSE v.s[k] \in Digits

SelectedPortIs(v) ==
    \/ Yields(env_mail_json) /\ dict_get(env_mail_json.d, "MAIL_PORT") = v
                             /\ "MAIL_PORT" \in DOMAIN env_mail_json.d
    \/ ~Yields(env_mail_json) /\ Yields(file_mail)
                             /\ "MAIL_PORT" \in DOMAIN file_mail.d
                             /\ file_mail.d["MAIL_PORT"] = v
    \/ ~Yields(env_mail_json) /\ ~Yields(file_mail) /\ env_mail["MAIL_PORT"] = v

\* C9: a MAIL_PORT in the returned settings is an int; the string "587" in
\* the blob, the file or the variable resolves to 587; with no blob, no
\* file and MAIL_PORT unset the port is 587.
C9_PortIsInteger ==
    phase = "serving" =>
        /\ "MAIL_PORT" \in DOMAIN mail_cfg => mail_cfg["MAIL_PORT"].t = "int"
        /\ SelectedPortIs(Str587) => dict_get(mail_cfg, "MAIL_PORT") = PyInt(587)
        /\ SelectedPortIs(StrPadded25) => dict_get(mail_cfg, "MAIL_PORT") = PyInt(25)
        /\ (~Yields(env_mail_json) /\ ~Yields(file_mail) /\ env_mail["MAIL_PORT"] = None_)
              => dict_get(mail_cfg, "MAIL_PORT") = PyInt(587)

\* C9 witness: the file is the source and holds the port as "587".
C9_Witness ==
    /\ phase = "serving"
    /\ ~Yields(env_mail_json)
    /\ Yields(file_mail)
    /\ dict_get(file_mail.d, "MAIL_PORT") = Str587
    /\ mail_cfg["MAIL_PORT"] = PyInt(587)

(***************************************************************************)
(* Properties of POST /api/contact (checked under Spec)                    *)
(***************************************************************************)
\* A step in which the pending request is answered.
HandlesContact == contact_req.pending /\ ~contact_req'.pending

\* The body lacks a required field or its email is no address.
InvalidSubmission(body) ==
    \/ DOMAIN body # FormFields
    \/ ~is_email(body["email"])

Ack == "Email sent successfully"

\* C6: an invalid submission is answered 422 with no background task, and
\* the step leaves the task queue, the running send and the transport alone.
C6_InvalidRejectedBeforeHandler ==
    [][(HandlesContact /\ InvalidSubmission(contact_req.body)) =>
          /\ contact_resp'.status = 422
          /\ contact_resp'.background = <<>>
          /\ UNCHANGED <<bg_tasks, running, outbox, send_log>>]_vars

\* C6 witness: a submission answered 422 with nothing queued, running or sent.
C6_Witness ==
    /\ contact_resp.status = 422
    /\ contact_resp.background = <<>>
    /\ bg_tasks = <<>> /\ running = <<>> /\ outbox = {}

\* C7: a valid submission whose add_task succeeds is acknowledged in the
\* handling step itself, which sends nothing; and the end of a background
\* send, success or failure, changes no response.
C7_AckIndependentOfTransport ==
    [][/\ (HandlesContact /\ ~InvalidSubmission(contact_req.body)
                          /\ ~contact_req.add_task_raises) =>
              /\ contact_resp'.status = 200
              /\ contact_resp'.body = Ack
              /\ Len(contact_resp'.background) = 1
              /\ UNCHANGED <<running, outbox, send_log>>
       /\ (running # <<>> /\ running' = <<>>) => contact_resp' = contact_resp]_vars

\* C7 witness: an acknowledgement on its way while an earlier send has
\* failed and another is still running.
C7_Witness ==
    /\ contact_resp.status = 200 /\ contact_resp.body = Ack
    /\ running # <<>>
    /\ send_log = "failed"

\* MAIL_RECIPIENT is absent, null or empty.
RecipientUnset(cfg) ==
    \/ "MAIL_RECIPIENT" \notin DOMAIN cfg
    \/ cfg["MAIL_RECIPIENT"] = None_
    \/ cfg["MAIL_RECIPIENT"] = StrEmpty

ExpectedRecipient(cfg) ==
    IF RecipientUnset(cfg) THEN dict_get(cfg, "MAIL_FROM") ELSE cfg["MAIL_RECIPIENT"]

\* Every message the handler built and that is not yet handed on.
Messages ==
    {contact_resp.background[i] : i \in 1..Len(contact_resp.background)}
    \cup {bg_tasks[i] : i \in 1..Len(bg_tasks)}
    \cup {running[i] : i \in 1..Len(running)}
    \cup outbox

\* C8: every message has one recipient: MAIL_FROM when MAIL_RECIPIENT is
\* absent, null or empty, MAIL_RECIPIENT otherwise.
C8_RecipientResolution ==
    \A m \in Messages : m.recipients = <<ExpectedRecipient(mail_cfg)>>

\* C8 witness: settings from the file with a null MAIL_RECIPIENT, and a
\* message to MAIL_FROM accepted by the transport.
C8_Witness ==
    /\ "MAIL_RECIPIENT" \in DOMAIN mail_cfg
    /\ mail_cfg["MAIL_RECIPIENT"] = None_
    /\ dict_get(mail_cfg, "MAIL_FROM") = FileFrom
    /\ \E m \in outbox : m.recipients = <<FileFrom>>

\* C10: once the process serves, no step changes mail_cfg, and a message
\* built by the handler is addressed from mail_cfg as resolved at import.
C10_SettingsFrozenAfterImport ==
    [][phase = "serving" =>
          /\ mail_cfg' = mail_cfg
          /\ (HandlesContact /\ contact_resp'.status = 200) =>
                contact_resp'.background[1].recipients = <<ExpectedRecipient(mail_cfg)>>]_vars

\* C10 witness: the sources now resolve to other settings than mail_cfg,
\* and a message addressed from mail_cfg has been sent.
C10_Witness ==
    /\ phase = "serving"
    /\ ~load_mail_config(env_mail_json, file_mail, env_mail).raised
    /\ ExpectedRecipient(load_mail_config(env_mail_json, file_mail, env_mail).value)
          # ExpectedRecipient(mail_cfg)
    /\ \E m \in outbox : m.recipients = <<ExpectedRecipient(mail_cfg)>>

====
